---- MODULE Spec2Model ----
(***************************************************************************)
(* Habit tracker (kishanpokal/habit-tracker-web): the dashboard and the    *)
(* analytics page over the Firestore collections users/{uid}/habits and    *)
(* users/{uid}/habitLogs.                                                  *)
(*                                                                         *)
(* A day identifier "YYYY-MM-DD" is the triple <<y, m, d>>; string order   *)
(* of the zero-padded text is the lexicographic order of the triple.  A    *)
(* JavaScript Date is its time value, here in whole hours since            *)
(* 1970-01-01T00:00Z.  The local fields of a Date depend on the user's     *)
(* time zone, the UTC fields (toISOString, new Date("YYYY-MM-DD")) do not. *)
(***************************************************************************)
EXTENDS Integers, Sequences, FiniteSets, TLC

VARIABLES
  tz,            \* the user's time zone
  now,           \* the instant new Date() returns (hours since the epoch)
  habitDocs,     \* store: users/{uid}/habits, ids in createdAt order
  logDocs,       \* store: users/{uid}/habitLogs, document id -> [habitId, date, completed]
  delBatch,      \* deleteHabitWithLogs between its getDocs and its batch.commit, or NoBatch
  page,          \* the mounted page: "dashboard" or "analytics"
  habits,        \* dashboard state: habits (ids)
  logs,          \* dashboard state: logs, habitId -> set of dates (HabitLogMap)
  snapDocs,      \* the documents of the habitLogs snapshot the dashboard received last
  view,          \* dashboard state: view
  viewBaseDate,  \* dashboard state: viewBaseDate
  dateRange,     \* dashboard memo: dateRange
  aHabits,       \* analytics state: habits (ids)
  aLogs,         \* analytics state: logs, a list of HabitLog records
  timeRange,     \* analytics state: timeRange
  customStart,   \* analytics state: customStart ("" is <<>>)
  customEnd,     \* analytics state: customEnd ("" is <<>>)
  selectedHabitId, \* analytics state: selectedHabitId
  rangeDays,     \* analytics memo: rangeDays
  writes,        \* number of store writes issued so far
  navs,          \* number of navigateView clicks so far
  deletingId,    \* habit list state: deletingId ("null" is null)
  listError,     \* habit list state: error
  deletions,     \* the handleDelete calls in flight: [n, habitId, phase, refs]
  started,       \* number of handleDelete calls so far
  user,          \* AuthContext state: user (NoUser is null)
  loading,       \* AuthContext state: loading
  userDocs,      \* store: users/{uid}, uid -> [email, provider, createdAt]
  authTasks,     \* auth-state callbacks past their setLoading: [n, uid, phase]
  authCalls,     \* number of auth-state callbacks so far
  screen,        \* what the router shows: "gate" (/), "login" (/login) or "app" (the page)
  gateTimer,     \* the setTimeout of the root gate: [armed, loading, user] (its closure)
  showAddHabit,  \* dashboard state: showAddHabit (the Add Habit modal is mounted)
  modalName,     \* Add Habit modal state: name
  modalLoading,  \* Add Habit modal state: loading
  modalError,    \* Add Habit modal state: error
  saves,         \* the addDoc calls of handleSave in flight: [n, opening]
  closeTimers,   \* the pending setTimeout(() => onClose(), 1200) of resolved saves
  opening,       \* number of times the modal was opened so far
  saveCalls,     \* number of handleSave calls so far
  createdSinceOpen, \* habit documents created since the modal was opened last
  today,         \* dashboard memo: useMemo(getToday, []) ("" away from the dashboard)
  streakLoop     \* the streak loop being run: its arguments, locals and position

vars == <<tz, now, habitDocs, logDocs, delBatch, page, habits, logs, snapDocs, view, viewBaseDate,
          dateRange, aHabits, aLogs, timeRange, customStart, customEnd,
          selectedHabitId, rangeDays, writes, navs,
          deletingId, listError, deletions, started,
          user, loading, userDocs, authTasks, authCalls, screen, gateTimer,
          showAddHabit, modalName, modalLoading, modalError, saves, closeTimers,
          opening, saveCalls, createdSinceOpen, today, streakLoop>>

envVars == <<tz, now>>
storeVars == <<habitDocs, logDocs, delBatch, writes>>
dashVars == <<habits, logs, snapDocs>>
navVars == <<view, viewBaseDate, dateRange, navs>>
listVars == <<deletingId, listError, deletions, started>>
\* The state of the components other than the dashboard and the analytics page.
authVars == <<user, loading, userDocs, authTasks, authCalls>>
gateVars == <<screen, gateTimer>>
modalVars == <<showAddHabit, modalName, modalLoading, modalError, saves, closeTimers,
               opening, saveCalls, createdSinceOpen>>
widgetVars == <<listVars, authVars, gateVars, modalVars, streakLoop>>
compVars == <<widgetVars, today>>
\* The components other than the habit list, and other than the auth provider
\* and the router.
nonListVars == <<authVars, gateVars, modalVars, today, streakLoop>>
nonAuthVars == <<listVars, modalVars, today, streakLoop>>
nonModalVars == <<listVars, authVars, gateVars, today, streakLoop>>
nonLoopVars == <<listVars, authVars, gateVars, modalVars, today>>
anaVars == <<aHabits, aLogs, selectedHabitId>>
anaRangeVars == <<timeRange, customStart, customEnd, rangeDays>>

(***************************************************************************)
(* ECMAScript Date: days, civil dates, time zones.                         *)
(***************************************************************************)
HoursPerDay == 24

Day(t) == t \div HoursPerDay
TimeWithinDay(t) == t % HoursPerDay

\* Day number of the civil date (y, m, d), m in 1..12, d any integer: the
\* year yy and the month mp count from March.
DayFromMarch(yy, mp, d) ==
  LET era == yy \div 400
      yoe == yy % 400
  IN  era * 146097 + yoe * 365 + (yoe \div 4) - (yoe \div 100)
        + ((153 * mp + 2) \div 5) + d - 1 - 719468

DayFromCivil(y, m, d) ==
  DayFromMarch(IF m <= 2 THEN y - 1 ELSE y, IF m > 2 THEN m - 3 ELSE m + 9, d)

\* MakeDay(year, month, date) of ECMAScript: month is 0-based and may lie
\* outside 0..11, date may lie outside the month.
MakeDay(year, month, date) ==
  DayFromCivil(year + (month \div 12), (month % 12) + 1, 1) + date - 1

\* The civil date <<y, m, d>> of a day number: the 400-year era, the day of
\* the era, the year of the era, the day and the month of the year from March.
CivilFromMonth(y, doy, mp) ==
  <<IF mp < 10 THEN y ELSE y + 1,
    IF mp < 10 THEN mp + 3 ELSE mp - 9,
    doy - ((153 * mp + 2) \div 5) + 1>>

CivilFromYearDay(y, doy) == CivilFromMonth(y, doy, (5 * doy + 2) \div 153)

CivilFromYoe(era, doe, yoe) ==
  CivilFromYearDay(yoe + era * 400, doe - (365 * yoe + (yoe \div 4) - (yoe \div 100)))

CivilFromEra(era, doe) ==
  CivilFromYoe(era, doe,
               (doe - (doe \div 1460) + (doe \div 36524) - (doe \div 146096)) \div 365)

CivilFromDay(z) == CivilFromEra((z + 719468) \div 146097, (z + 719468) % 146097)

\* 0 = Sunday .. 6 = Saturday; 1970-01-01 was a Thursday.
WeekDay(z) == (z + 4) % 7

\* The last Sunday of the month before month index m (0-based) of the year y.
LastSundayFrom(last) == last - WeekDay(last)

LastSunday(y, m) == LastSundayFrom(MakeDay(y, m, 0))

\* The zones of the model: one west of UTC without DST, one east of UTC whose
\* DST starts at 02:00 local, one east of UTC whose DST starts at 00:00 local.
\* Both DST rules run from the last Sunday of March to the last Sunday of
\* October.
Zones == {"America/Bogota", "Europe/Berlin", "Asia/Beirut"}

StdOffset(z) ==
  CASE z = "America/Bogota" -> -5
    [] z = "Europe/Berlin"  -> 1
    [] z = "Asia/Beirut"    -> 2

HasDst(z) == z # "America/Bogota"

\* The UTC instants at which DST starts and ends in the year y: 01:00 UTC in
\* Berlin; 00:00 local time in Beirut, standard at the start and DST at the end.
DstStart(z, y) ==
  LastSunday(y, 3) * HoursPerDay + (IF z = "Europe/Berlin" THEN 1 ELSE -2)

DstEnd(z, y) ==
  LastSunday(y, 10) * HoursPerDay + (IF z = "Europe/Berlin" THEN 1 ELSE -3)

InDst(z, t, y) == DstStart(z, y) <= t /\ t < DstEnd(z, y)

\* Offset of local time from UTC at the UTC instant t.
OffsetAt[z \in Zones, t \in Int] ==
  IF HasDst(z) /\ InDst(z, t, CivilFromDay(Day(t))[1])
  THEN StdOffset(z) + 1 ELSE StdOffset(z)

LocalTime[z \in Zones, t \in Int] == t + OffsetAt[z, t]

\* UTC(t) of ECMAScript: a local time that is skipped or repeated at a
\* transition is read with the offset in force before the transition, which
\* is the DST offset exactly when the DST reading of the local time is in DST.
UTC[z \in Zones, tl \in Int] ==
  IF OffsetAt[z, tl - StdOffset(z) - 1] = StdOffset(z) + 1
  THEN tl - StdOffset(z) - 1 ELSE tl - StdOffset(z)

\* new Date(year, monthIndex, day): local midnight.
NewDateLocal[z \in Zones, year \in Int, month \in Int, date \in Int] ==
  UTC[z, MakeDay(year, month, date) * HoursPerDay]

\* new Date("YYYY-MM-DD"): a date-only string is UTC midnight.
NewDateISO[s \in Int \X Int \X Int] == MakeDay(s[1], s[2] - 1, s[3]) * HoursPerDay

getFullYear[z \in Zones, t \in Int] == CivilFromDay(Day(LocalTime[z, t]))[1]
getMonth[z \in Zones, t \in Int] == CivilFromDay(Day(LocalTime[z, t]))[2] - 1
getDate[z \in Zones, t \in Int] == CivilFromDay(Day(LocalTime[z, t]))[3]
getDay[z \in Zones, t \in Int] == WeekDay(Day(LocalTime[z, t]))

\* d.setDate(dt): the local day of month is replaced, the local time of day kept.
setDateIn(z, lt, c, dt) ==
  UTC[z, MakeDay(c[1], c[2] - 1, dt) * HoursPerDay + TimeWithinDay(lt)]

setDateAt(z, lt, dt) == setDateIn(z, lt, CivilFromDay(Day(lt)), dt)

setDate[z \in Zones, t \in Int, dt \in Int] == setDateAt(z, LocalTime[z, t], dt)

\* d.setMonth(m): the local month is replaced, month overflow carried by MakeDay.
setMonthIn(z, lt, c, m) ==
  UTC[z, MakeDay(c[1], m, c[3]) * HoursPerDay + TimeWithinDay(lt)]

setMonthAt(z, lt, m) == setMonthIn(z, lt, CivilFromDay(Day(lt)), m)

setMonth[z \in Zones, t \in Int, m \in Int] == setMonthAt(z, LocalTime[z, t], m)

\* d.setFullYear(y): the local year is replaced.
setFullYearIn(z, lt, c, y) ==
  UTC[z, MakeDay(y, c[2] - 1, c[3]) * HoursPerDay + TimeWithinDay(lt)]

setFullYearAt(z, lt, y) == setFullYearIn(z, lt, CivilFromDay(Day(lt)), y)

setFullYear[z \in Zones, t \in Int, y \in Int] == setFullYearAt(z, LocalTime[z, t], y)

\* d.toISOString().split("T")[0]: the UTC calendar date.
toISODate[t \in Int] == CivilFromDay(Day(t))

(***************************************************************************)
(* Dashboard helpers (src/app/dashboard/page.tsx).                         *)
(***************************************************************************)
getLocalDateString[z \in Zones, t \in Int] == CivilFromDay(Day(LocalTime[z, t]))

getToday(z, n) == getLocalDateString[z, n]

\* A faulty variant of addDays: the text is parsed by new Date(dateStr), which
\* is UTC midnight, instead of being split into local fields.
addDaysISO(z, dateStr, days) ==
  getLocalDateString[z, setDate[z, NewDateISO[dateStr], getDate[z, NewDateISO[dateStr]] + days]]

addDays(z, dateStr, days) ==
  LET d == NewDateLocal[z, dateStr[1], dateStr[2] - 1, dateStr[3]]
  IN  getLocalDateString[z, setDate[z, d, getDate[z, d] + days]]

ViewModes == {"week", "month", "year", "allTime"}

AllTimeDays == 90

\* The values d takes in the first n rounds of a loop that steps d by
\*   d.setDate(d.getDate() + 1),
\* computed by halving so that the evaluation stays shallow.
RECURSIVE setDateLoop(_, _, _)
setDateLoop(z, d, n) ==
  IF n = 1 THEN <<d>>
  ELSE LET h    == n \div 2
           left == setDateLoop(z, d, h)
       IN  left \o setDateLoop(z, setDate[z, left[h], getDate[z, left[h]] + 1], n - h)

\* No year has more days than this, so the loop never runs more rounds.
MaxYearLoop == 367

\* The loop pushes getLocalDateString(d) while d <= end; d only grows.
yearLoop(z, start, end) ==
  LET ds   == setDateLoop(z, start, MaxYearLoop)
      kept == SelectSeq(ds, LAMBDA d : d <= end)
  IN  [i \in 1..Len(kept) |-> getLocalDateString[z, kept[i]]]

weekRange(z, baseStr) ==
  LET base  == NewDateISO[baseStr]
      day   == IF getDay[z, base] = 0 THEN 7 ELSE getDay[z, base]
      start == getLocalDateString[z, setDate[z, base, getDate[z, base] - day + 1]]
  IN  [i \in 1..7 |-> addDays(z, start, i - 1)]

monthRange(z, baseStr) ==
  LET base  == NewDateISO[baseStr]
      year  == getFullYear[z, base]
      month == getMonth[z, base]
      days  == getDate[z, NewDateLocal[z, year, month + 1, 0]]
  IN  [i \in 1..days |-> getLocalDateString[z, NewDateLocal[z, year, month, i]]]

yearRange(z, baseStr) ==
  LET year == getFullYear[z, NewDateISO[baseStr]]
  IN  yearLoop(z, NewDateLocal[z, year, 0, 1], NewDateLocal[z, year, 11, 31])

\* A faulty variant of allTimeRange: the window is shifted back by one day.
allTimeRangeShifted(z, baseStr) ==
  [i \in 1..AllTimeDays |-> addDays(z, baseStr, -AllTimeDays + (i - 1))]

allTimeRange(z, baseStr) ==
  [i \in 1..AllTimeDays |-> addDays(z, baseStr, -(AllTimeDays - 1) + (i - 1))]

\* const dateRange = useMemo(..., [viewBaseDate, view])
dateRangeMemo(z, v, baseStr) ==
  CASE v = "week"  -> weekRange(z, baseStr)
    [] v = "month" -> monthRange(z, baseStr)
    [] v = "year"  -> yearRange(z, baseStr)
    [] OTHER       -> allTimeRange(z, baseStr)

(***************************************************************************)
(* Sequences and sets of day identifiers.                                  *)
(***************************************************************************)
Range(s) == {s[i] : i \in 1..Len(s)}

\* includes: Array.prototype.includes
includes(s, x) == \E i \in 1..Len(s) : s[i] = x

\* String comparison of two "YYYY-MM-DD" texts.
StrLess(a, b) ==
  \/ a[1] < b[1]
  \/ a[1] = b[1] /\ a[2] < b[2]
  \/ a[1] = b[1] /\ a[2] = b[2] /\ a[3] < b[3]

\* [...new Set(dates)].sort(): the distinct texts in ascending string order.
RECURSIVE sortedSet(_)
sortedSet(S) ==
  IF S = {} THEN <<>>
  ELSE LET least == CHOOSE a \in S : \A b \in S \ {a} : StrLess(a, b)
       IN  <<least>> \o sortedSet(S \ {least})

\* Math.round(100 * a / b) for a >= 0, b > 0: halves round up.
MathRoundPercent(a, b) == (200 * a + b) \div (2 * b)

(***************************************************************************)
(* Dashboard statistics (src/app/dashboard/page.tsx).                      *)
(***************************************************************************)
\* A faulty variant of the loop of getStreak, which moves the cursor two days back.
RECURSIVE streakFromEveryOther(_, _, _)
streakFromEveryOther(z, set, cursor) ==
  IF cursor \in set THEN 1 + streakFromEveryOther(z, set, addDays(z, cursor, -2)) ELSE 0

\* const getStreak = (habitId, asOfDate) => ...
RECURSIVE streakFrom(_, _, _)
streakFrom(z, set, cursor) ==
  IF cursor \in set THEN 1 + streakFrom(z, set, addDays(z, cursor, -1)) ELSE 0

getStreak(z, logMap, habitId, asOfDate) ==
  IF habitId \notin DOMAIN logMap THEN 0
  ELSE streakFrom(z, logMap[habitId], asOfDate)

\* Object.values(logs).reduce((sum, s) => sum + [...s].filter(d => range.includes(d)).length, 0)
RECURSIVE sumOverLogs(_, _, _)
sumOverLogs(logMap, ids, range) ==
  IF ids = {} THEN 0
  ELSE LET h == CHOOSE x \in ids : TRUE
       IN  Cardinality({d \in logMap[h] : includes(range, d)})
             + sumOverLogs(logMap, ids \ {h}, range)

totalCompleted(logMap, range) == sumOverLogs(logMap, DOMAIN logMap, range)

totalPossible(hs, range) == Len(hs) * Len(range)

progressPercent(hs, logMap, range) ==
  IF totalPossible(hs, range) = 0 THEN 0
  ELSE MathRoundPercent(totalCompleted(logMap, range), totalPossible(hs, range))

\* const previousWeekRange = dateRange.map((d) => addDays(d, -7))
previousWeekRange(z, range) == [i \in 1..Len(range) |-> addDays(z, range[i], -7)]

\* A faulty variant of previousPossible, which leaves the habits out.
previousPossibleOfWeek(hs) == 7

\* const previousPossible = habits.length * 7
previousPossible(hs) == Len(hs) * 7

\* previousPossible === 0 ? 0 : Math.round((previousCompleted / previousPossible) * 100)
previousPercent(z, hs, logMap, range) ==
  IF previousPossible(hs) = 0 THEN 0
  ELSE MathRoundPercent(totalCompleted(logMap, previousWeekRange(z, range)), previousPossible(hs))

\* const delta = progressPercent - previousPercent
delta(z, hs, logMap, range) ==
  progressPercent(hs, logMap, range) - previousPercent(z, hs, logMap, range)

(***************************************************************************)
(* Analytics utilities and stats (src/app/analytics/page.tsx).             *)
(***************************************************************************)
TimeRanges == {"7d", "30d", "90d", "year", "custom"}

\* const map = { "7d": 7, "30d": 30, "90d": 90, "year": 365, "custom": 30 }
rangeLength(r) ==
  CASE r = "7d" -> 7 [] r = "30d" -> 30 [] r = "90d" -> 90 [] r = "year" -> 365
    [] OTHER -> 30

generateDateRange(z, n, days) ==
  [i \in 1..days |-> toISODate[setDate[z, n, getDate[z, n] - (days - 1 - (i - 1))]]]

\* while (curr <= endD) { dates.push(curr.toISOString()...); curr.setDate(curr.getDate() + 1) }
\* A round moves curr forward by at least 23 hours, which bounds the rounds.
generateCustomDateRange(z, start, end) ==
  LET curr   == NewDateISO[start]
      endD   == NewDateISO[end]
      rounds == IF curr <= endD THEN ((endD - curr) \div (HoursPerDay - 1)) + 1 ELSE 1
      ds     == setDateLoop(z, curr, rounds)
      kept   == SelectSeq(ds, LAMBDA d : d <= endD)
  IN  [i \in 1..Len(kept) |-> toISODate[kept[i]]]

\* const rangeDays = useMemo(..., [timeRange, customStart, customEnd]); "" is <<>>
rangeDaysMemo(z, n, r, cs, ce) ==
  IF r = "custom" /\ cs # <<>> /\ ce # <<>>
  THEN generateCustomDateRange(z, cs, ce)
  ELSE generateDateRange(z, n, rangeLength(r))

\* const d = new Date(); d.setDate(d.getDate() - i); d.toISOString().split("T")[0]
streakKey(z, n, i) == toISODate[setDate[z, n, getDate[z, n] - i]]

\* calculateStreak(dates, rangeDays?): the loop from round i on.
RECURSIVE calculateStreakFrom(_, _, _, _, _, _)
calculateStreakFrom(z, n, set, hasRange, range, i) ==
  LET key == streakKey(z, n, i)
  IN  IF hasRange /\ ~includes(range, key) THEN 0
      ELSE IF key \in set
           THEN 1 + calculateStreakFrom(z, n, set, hasRange, range, i + 1)
           ELSE 0

calculateStreak(z, n, dates, hasRange, range) ==
  calculateStreakFrom(z, n, Range(dates), hasRange, range, 0)

\* The forEach of calculateBestStreak from position i on, with the values of
\* maxStreak, currentStreak and prevDate before it.
RECURSIVE bestStreakLoop(_, _, _, _, _)
bestStreakLoop(sorted, i, maxStreak, currentStreak, prevDate) ==
  IF i > Len(sorted) THEN IF maxStreak > currentStreak THEN maxStreak ELSE currentStreak
  ELSE LET currentDate == NewDateISO[sorted[i]]
       IN  IF prevDate # <<>>
           THEN IF currentDate - prevDate[1] = HoursPerDay
                THEN bestStreakLoop(sorted, i + 1, maxStreak, currentStreak + 1, <<currentDate>>)
                ELSE bestStreakLoop(sorted, i + 1,
                                    IF maxStreak > currentStreak THEN maxStreak ELSE currentStreak,
                                    1, <<currentDate>>)
           ELSE bestStreakLoop(sorted, i + 1, maxStreak, 1, <<currentDate>>)

\* A faulty variant of calculateBestStreak: the range filter is left out.
calculateBestStreakUnfiltered(dates, hasRange, range) ==
  bestStreakLoop(sortedSet(Range(dates)), 1, 0, 0, <<>>)

calculateBestStreak(dates, hasRange, range) ==
  LET filteredDates == IF hasRange THEN SelectSeq(dates, LAMBDA d : includes(range, d)) ELSE dates
      sortedDates   == sortedSet(Range(filteredDates))
  IN  bestStreakLoop(sortedDates, 1, 0, 0, <<>>)

filteredHabits(hs, sel) ==
  IF sel = "all" THEN hs ELSE SelectSeq(hs, LAMBDA h : h = sel)

filteredLogs(ls, sel) ==
  IF sel = "all" THEN ls ELSE SelectSeq(ls, LAMBDA l : l.habitId = sel)

\* filteredLogs.filter((l) => l.completed && rangeDays.includes(l.date)).length
completedInRange(fl, range) ==
  Len(SelectSeq(fl, LAMBDA l : l.completed /\ includes(range, l.date)))

\* possible === 0 ? 0 : Math.round((completedInRange / possible) * 100)
completionRate(fh, fl, range) ==
  IF Len(fh) * Len(range) = 0 THEN 0
  ELSE MathRoundPercent(completedInRange(fl, range), Len(fh) * Len(range))

\* filteredLogs.filter((l) => l.completed).map((l) => l.date)
datesOf(done) == [i \in 1..Len(done) |-> done[i].date]

allCompletedDates(fl) == datesOf(SelectSeq(fl, LAMBDA l : l.completed))

\* const stats = useMemo(...): completionRate, currentStreak, bestStreak, totalCompleted
statsOf(z, n, fh, fl, range) ==
  [completionRate |-> completionRate(fh, fl, range),
   currentStreak  |-> calculateStreak(z, n, allCompletedDates(fl), FALSE, <<>>),
   bestStreak     |-> calculateBestStreak(allCompletedDates(fl), TRUE, range),
   totalCompleted |-> completedInRange(fl, range)]

stats(z, n, hs, ls, sel, range) ==
  statsOf(z, n, filteredHabits(hs, sel), filteredLogs(ls, sel), range)

(***************************************************************************)
(* The store, the listeners and the pages.                                 *)
(***************************************************************************)
HabitIds == {"h1", "h2"}

NoBatch == [habitId |-> "none", refs |-> {}]

\* The UTC instant of hour h of the civil date (y, m, d).
At(y, m, d, h) == DayFromCivil(y, m, d) * HoursPerDay + h

\* The days a completion is toggled on reach back this far from today.
MaxBack == 1

\* Store writes issued by toggleHabit in one run.
MaxWrites == 2

Window(z, n) == {addDays(z, getToday(z, n), -k) : k \in 0..MaxBack}

\* A faulty variant of the document id, which leaves the habit out.
logDocIdOfDate(habitId, date) == <<"h1", date>>

\* `${habitId}_${date}`: the id of the document toggleHabit writes.
logDocId(habitId, date) == <<habitId, date>>

\* setDoc(doc(db, "users", uid, "habitLogs", `${habitId}_${date}`),
\*        {habitId, date, completed: checked, ...}, {merge: true})
setLogDoc(docs, habitId, date, checked) ==
  [k \in DOMAIN docs \cup {logDocId(habitId, date)} |->
     IF k = logDocId(habitId, date)
     THEN [habitId |-> habitId, date |-> date, completed |-> checked]
     ELSE docs[k]]

\* Document ids in ascending order, as a snapshot of the collection lists them.
IdLess(a, b) == (a[1] = "h1" /\ b[1] = "h2") \/ (a[1] = b[1] /\ StrLess(a[2], b[2]))

RECURSIVE sortedIds(_)
sortedIds(S) ==
  IF S = {} THEN <<>>
  ELSE LET least == CHOOSE a \in S : \A b \in S \ {a} : IdLess(a, b)
       IN  <<least>> \o sortedIds(S \ {least})

\* snap.docs.map(d => d.data()): the data of the documents of a snapshot.
dataOf(docs, ids) == [i \in 1..Len(ids) |-> docs[ids[i]]]

logListOf(docs) == dataOf(docs, sortedIds(DOMAIN docs))

\* map[data.habitId].add(data.date), after "if (!map[data.habitId]) map[data.habitId] = new Set()"
addToMap(map, habitId, date) ==
  [h \in DOMAIN map \cup {habitId} |->
     IF h = habitId THEN (IF h \in DOMAIN map THEN map[h] ELSE {}) \cup {date} ELSE map[h]]

\* snap.docs.forEach(...) of the dashboard's habitLogs listener from document i
\* on, with the map built so far.
RECURSIVE buildLogMapFrom(_, _, _)
buildLogMapFrom(recs, i, map) ==
  IF i > Len(recs) THEN map
  ELSE IF ~recs[i].completed THEN buildLogMapFrom(recs, i + 1, map)
  ELSE buildLogMapFrom(recs, i + 1, addToMap(map, recs[i].habitId, recs[i].date))

\* A faulty variant of buildLogMap: the documents are added to the map the
\* page already holds instead of to a new one.
buildLogMapIntoLogs(recs) == buildLogMapFrom(recs, 1, logs)

\* const map: HabitLogMap = {}; snap.docs.forEach(...); the map handed to setLogs
buildLogMap(recs) == buildLogMapFrom(recs, 1, <<>>)

\* The HabitLogMap the dashboard builds from a snapshot of the store.
logMapOf(docs) == buildLogMap(logListOf(docs))

\* The analytics habits listener reads the collection unordered: by document id.
habitListOf(hs) == SelectSeq(<<"h1", "h2">>, LAMBDA h : includes(hs, h))

\* ---- the dashboard page ----

\* Mounting the dashboard: the useState initial values and the first dateRange.
OpenDashboard ==
  /\ page = "analytics"
  /\ page' = "dashboard"
  /\ habits' = <<>>
  /\ logs' = <<>>
  /\ snapDocs' = <<>>
  /\ view' = "week"
  /\ today' = getToday(tz, now)
  /\ viewBaseDate' = getToday(tz, now)
  /\ dateRange' = dateRangeMemo(tz, "week", getToday(tz, now))
  /\ aHabits' = <<>>
  /\ aLogs' = <<>>
  /\ selectedHabitId' = "all"
  /\ timeRange' = "30d"
  /\ customStart' = <<>>
  /\ customEnd' = <<>>
  /\ rangeDays' = <<>>
  /\ UNCHANGED <<envVars, widgetVars, storeVars, navs>>

\* onSnapshot(query(collection(db, "users", uid, "habits"), orderBy("createdAt", "asc")), ...)
DashHabitsSnapshot ==
  /\ page = "dashboard"
  /\ habits # habitDocs
  /\ habits' = habitDocs
  /\ UNCHANGED <<envVars, compVars, storeVars, page, logs, snapDocs, navVars, anaVars, anaRangeVars>>

\* (snap) => { const map = {}; snap.forEach(...); setLogs(map); }
\* recs is the data of the documents of the snapshot, in the snapshot's order.
onLogsSnapshot(recs) ==
  /\ page = "dashboard"
  /\ snapDocs' = recs
  /\ logs' = buildLogMap(recs)
  /\ UNCHANGED <<envVars, compVars, storeVars, page, habits, navVars, anaVars, anaRangeVars>>

\* onSnapshot(collection(db, "users", uid, "habitLogs"), ...)
DashLogsSnapshot ==
  /\ snapDocs # logListOf(logDocs)
  /\ onLogsSnapshot(logListOf(logDocs))

\* const done = logs[h.id]?.has(d); the cell passes !done to toggleHabit
clickValue(logMap, habitId, date) == ~(habitId \in DOMAIN logMap /\ date \in logMap[habitId])

\* onClick={() => toggleHabit(h.id, d, !done)} on a day cell of a listed habit
toggleHabit(habitId, date) ==
  /\ page = "dashboard"
  /\ writes < MaxWrites
  /\ includes(habits, habitId)
  /\ includes(dateRange, date)
  /\ date \in Window(tz, now)
  /\ logDocs' = setLogDoc(logDocs, habitId, date, clickValue(logs, habitId, date))
  /\ writes' = writes + 1
  /\ UNCHANGED <<envVars, compVars, habitDocs, delBatch, page, dashVars, navVars, anaVars, anaRangeVars>>

\* Header clicks on the dashboard in one run.
MaxNavs == 2

\* onClick={() => setView(m)}
setView(m) ==
  /\ page = "dashboard"
  /\ view' = m
  /\ dateRange' = dateRangeMemo(tz, m, viewBaseDate)
  /\ UNCHANGED <<envVars, compVars, storeVars, page, dashVars, viewBaseDate, navs, anaVars, anaRangeVars>>

\* const d = new Date(viewBaseDate); ...; setViewBaseDate(getLocalDateString(d))
navigatedDate(z, v, d, direction) ==
  CASE v = "week"  -> setDate[z, d, getDate[z, d] + direction * 7]
    [] v = "month" -> setMonth[z, d, getMonth[z, d] + direction]
    [] v = "year"  -> setFullYear[z, d, getFullYear[z, d] + direction]
    [] OTHER       -> setDate[z, d, getDate[z, d] + direction * 90]

navigatedBase(z, v, baseStr, direction) ==
  getLocalDateString[z, navigatedDate(z, v, NewDateISO[baseStr], direction)]

\* onClick={() => navigateView(-1)}, onClick={() => navigateView(1)}
navigateView(direction) ==
  /\ page = "dashboard"
  /\ navs < MaxNavs
  /\ navs' = navs + 1
  /\ viewBaseDate' = navigatedBase(tz, view, viewBaseDate, direction)
  /\ dateRange' = dateRangeMemo(tz, view, navigatedBase(tz, view, viewBaseDate, direction))
  /\ UNCHANGED <<envVars, compVars, storeVars, page, dashVars, view, anaVars, anaRangeVars>>

\* ---- deleteHabitWithLogs (src/lib/deleteHabitWithLogs.ts), run from the habit list ----

\* Up to "await getDocs(logsQuery)": the batch holds the habit and the logs found.
DeleteQuery(habitId) ==
  /\ delBatch = NoBatch
  /\ includes(habitDocs, habitId)
  /\ delBatch' = [habitId |-> habitId, refs |-> {k \in DOMAIN logDocs : logDocs[k].habitId = habitId}]
  /\ UNCHANGED <<envVars, compVars, habitDocs, logDocs, writes, page, dashVars, navVars, anaVars, anaRangeVars>>

\* "await batch.commit()": the deletes of the batch are applied together.
DeleteCommit ==
  /\ delBatch # NoBatch
  /\ habitDocs' = SelectSeq(habitDocs, LAMBDA h : h # delBatch.habitId)
  /\ logDocs' = [k \in DOMAIN logDocs \ delBatch.refs |-> logDocs[k]]
  /\ delBatch' = NoBatch
  /\ UNCHANGED <<envVars, compVars, writes, page, dashVars, navVars, anaVars, anaRangeVars>>

\* ---- the habit list (src/components/HabitList.tsx) ----

\* handleDelete calls in one run.
MaxDeletes == 3

pageVars == <<page, dashVars, navVars, anaVars, anaRangeVars>>

\* onClick={() => handleDelete(habit.id)} disabled={deletingId === habit.id}:
\* setDeletingId(habitId); setError(""); deleteHabitWithLogs runs up to its
\* "await getDocs(logsQuery)".
handleDelete(habitId) ==
  /\ started < MaxDeletes
  /\ includes(habitDocs, habitId)
  /\ deletingId # habitId
  /\ deletingId' = habitId
  /\ listError' = ""
  /\ started' = started + 1
  /\ deletions' = deletions \cup {[n |-> started + 1, habitId |-> habitId, phase |-> "query", refs |-> {}]}
  /\ UNCHANGED <<envVars, storeVars, pageVars, nonListVars>>

\* getDocs resolves: the batch of the call holds the habit and the logs found,
\* and the call is at "await batch.commit()".
deleteQueried(del) ==
  /\ del \in deletions
  /\ del.phase = "query"
  /\ deletions' = (deletions \ {del})
       \cup {[del EXCEPT !.phase = "commit",
                          !.refs = {k \in DOMAIN logDocs : logDocs[k].habitId = del.habitId}]}
  /\ UNCHANGED <<envVars, storeVars, pageVars, nonListVars, deletingId, listError, started>>

\* batch.commit() resolves and handleDelete reaches its finally: setDeletingId(null).
deleteSucceeded(del) ==
  /\ del \in deletions
  /\ del.phase = "commit"
  /\ habitDocs' = SelectSeq(habitDocs, LAMBDA h : h # del.habitId)
  /\ logDocs' = [k \in DOMAIN logDocs \ del.refs |-> logDocs[k]]
  /\ deletingId' = "null"
  /\ deletions' = deletions \ {del}
  /\ UNCHANGED <<envVars, delBatch, writes, pageVars, nonListVars, listError, started>>

\* getDocs or batch.commit() rejects: catch sets the error, finally setDeletingId(null).
deleteFailed(del) ==
  /\ del \in deletions
  /\ listError' = "Failed to delete habit. Check permissions."
  /\ deletingId' = "null"
  /\ deletions' = deletions \ {del}
  /\ UNCHANGED <<envVars, storeVars, pageVars, nonListVars, started>>

\* ---- the auth provider (src/context/AuthContext.tsx) and the root gate (src/app/page.tsx) ----

\* null of the AuthContext's user.
NoUser == [uid |-> "none", emailVerified |-> FALSE]

\* The Firebase users of the runs: one account, its email verified or not.
Users == [uid : {"u1"}, emailVerified : BOOLEAN]

\* The root gate is not mounted: no timer.
NoTimer == [armed |-> FALSE, loading |-> FALSE, user |-> NoUser]

\* The document AuthProvider creates; its createdAt is told apart by the
\* number of the callback that wrote it.
userDocOf(uid, n) == [email |-> uid, provider |-> "password", createdAt |-> n]

\* Auth-state callbacks in one run.
MaxAuthCalls == 3

appVars == <<envVars, habitDocs, logDocs, delBatch, writes, pageVars>>

\* The effect of the root gate runs again when user or loading changed: the
\* cleanup clears the timer and a new setTimeout(..., 2000) captures the values.
gateEffect(u, l) ==
  IF screen = "gate" /\ (u # user \/ l # loading)
  THEN [armed |-> TRUE, loading |-> l, user |-> u]
  ELSE gateTimer

\* The auth effect of the dashboard: if (loading) return; if (!user) router.replace("/login")
dashboardAuthEffect(u, l) ==
  IF screen = "app" /\ page = "dashboard" /\ ~l /\ u = NoUser THEN "login" ELSE screen

\* if (loading || !user) return null: whether the dashboard renders its content.
dashboardRenders(u, l) == ~(l \/ u = NoUser)

\* onAuthStateChanged(auth, async (firebaseUser) => ...) up to "await getDoc(userRef)":
\* setUser, setLoading(false), and the effects of the mounted components that
\* depend on user and loading.
authStateChanged(firebaseUser) ==
  /\ authCalls < MaxAuthCalls
  /\ authCalls' = authCalls + 1
  /\ user' = firebaseUser
  /\ loading' = FALSE
  /\ authTasks' = IF firebaseUser # NoUser
                  THEN authTasks \cup {[n |-> authCalls + 1, uid |-> firebaseUser.uid, phase |-> "getDoc"]}
                  ELSE authTasks
  /\ gateTimer' = gateEffect(firebaseUser, FALSE)
  /\ screen' = dashboardAuthEffect(firebaseUser, FALSE)
  /\ UNCHANGED <<appVars, nonAuthVars, userDocs>>

\* The same callback in another session of the user (another tab or device):
\* its setUser and setLoading are that session's, its Firestore side effect
\* runs against the same store.
otherSessionAuthStateChanged(firebaseUser) ==
  /\ authCalls < MaxAuthCalls
  /\ firebaseUser # NoUser
  /\ authCalls' = authCalls + 1
  /\ authTasks' = authTasks \cup {[n |-> authCalls + 1, uid |-> firebaseUser.uid, phase |-> "getDoc"]}
  /\ UNCHANGED <<appVars, nonAuthVars, user, loading, userDocs, gateVars>>

\* getDoc resolves: if (!userSnap.exists()) the callback goes on to setDoc,
\* otherwise it is done.
userDocRead(task) ==
  /\ task \in authTasks
  /\ task.phase = "getDoc"
  /\ authTasks' = IF task.uid \in DOMAIN userDocs
                  THEN authTasks \ {task}
                  ELSE (authTasks \ {task}) \cup {[task EXCEPT !.phase = "setDoc"]}
  /\ UNCHANGED <<appVars, nonAuthVars, user, loading, userDocs, authCalls, gateVars>>

\* setDoc(userRef, {email, provider, createdAt: serverTimestamp()}) resolves.
userDocWritten(task) ==
  /\ task \in authTasks
  /\ task.phase = "setDoc"
  /\ userDocs' = [u \in DOMAIN userDocs \cup {task.uid} |->
                    IF u = task.uid THEN userDocOf(task.uid, task.n) ELSE userDocs[u]]
  /\ authTasks' = authTasks \ {task}
  /\ UNCHANGED <<appVars, nonAuthVars, user, loading, authCalls, gateVars>>

\* getDoc or setDoc rejects: catch (error) { console.error(...) }
userDocFailed(task) ==
  /\ task \in authTasks
  /\ authTasks' = authTasks \ {task}
  /\ UNCHANGED <<appVars, nonAuthVars, user, loading, userDocs, authCalls, gateVars>>

\* A faulty variant of the timer callback, which leaves out the test of
\* user.emailVerified.
gateTargetOfAnyUser(t) ==
  IF t.loading THEN "gate"
  ELSE IF t.user = NoUser THEN "login"
  ELSE "app"

\* The route the timer callback of the gate replaces the location with, "gate"
\* when it returns without routing.
gateTarget(t) ==
  IF t.loading THEN "gate"
  ELSE IF t.user = NoUser THEN "login"
  ELSE IF ~t.user.emailVerified THEN "login"
  ELSE "app"

\* The timer of the gate fires after its 2 seconds; a router.replace unmounts
\* the gate.
gateTimerFires ==
  /\ screen = "gate"
  /\ gateTimer.armed
  /\ screen' = gateTarget(gateTimer)
  /\ gateTimer' = [gateTimer EXCEPT !.armed = FALSE]
  /\ UNCHANGED <<appVars, nonAuthVars, authVars>>

\* ---- the streak loops, one round at a time ----

\* No streak loop is being run.
NoLoop ==
  [kind |-> "none", pc |-> "idle", set |-> {}, hasRange |-> FALSE, range |-> <<>>,
   cursor |-> <<>>, i |-> 0, streak |-> 0]

LoopIdle == streakLoop = NoLoop

\* The completed dates reach back this far from now.
MaxLoopBack == 3

\* The rounds a loop may run in the model; streak counts them.
MaxRounds == 8

\* The days the completed dates, the starting day and rangeDays are taken from.
LoopDays(z, n) == {streakKey(z, n, k) : k \in 0..MaxLoopBack} \cup {getToday(z, n)}

\* The rangeDays handed to calculateStreak: the keys of the last days, oldest first.
LoopRanges(z, n) == {[k \in 1..len |-> streakKey(z, n, len - k)] : len \in 0..2}

\* A faulty variant of the cursor update of getStreak, which leaves the cursor in place.
sameCursor(z, cursor) == cursor

\* cursor = addDays(cursor, -1)
nextCursor(z, cursor) == addDays(z, cursor, -1)

\* getStreak(habitId, asOfDate) with set = logs[habitId]: let streak = 0; let cursor = asOfDate
getStreakCalled(set, asOfDate) ==
  /\ streakLoop = NoLoop
  /\ streakLoop' = [NoLoop EXCEPT !.kind = "getStreak", !.pc = "loop", !.set = set,
                                  !.cursor = asOfDate]
  /\ UNCHANGED <<appVars, nonLoopVars>>

\* The loop of getStreak is at its test and the model lets it run a round.
getStreakCanStep ==
  /\ streakLoop.kind = "getStreak"
  /\ streakLoop.pc = "loop"
  /\ streakLoop.streak < MaxRounds

\* One test of "while (set.has(cursor))" and, if it holds, one round of the body.
getStreakStep ==
  /\ getStreakCanStep
  /\ streakLoop' = IF streakLoop.cursor \in streakLoop.set
                    THEN [streakLoop EXCEPT !.streak = @ + 1, !.cursor = nextCursor(tz, @)]
                    ELSE [streakLoop EXCEPT !.pc = "done"]
  /\ UNCHANGED <<appVars, nonLoopVars>>

\* calculateStreak(dates, rangeDays?): const set = new Set(dates); let streak = 0; i = 0
calculateStreakCalled(set, hasRange, range) ==
  /\ streakLoop = NoLoop
  /\ streakLoop' = [NoLoop EXCEPT !.kind = "calculateStreak", !.pc = "loop", !.set = set,
                                  !.hasRange = hasRange, !.range = range]
  /\ UNCHANGED <<appVars, nonLoopVars>>

\* The body of the for loop once key is computed: the two breaks, or streak++
\* and i++.
calculateStreakRound(loop, key) ==
  IF loop.hasRange /\ ~includes(loop.range, key) THEN [loop EXCEPT !.pc = "done"]
  ELSE IF key \in loop.set THEN [loop EXCEPT !.streak = @ + 1, !.i = @ + 1]
  ELSE [loop EXCEPT !.pc = "done"]

\* The loop of calculateStreak is at the start of a round and the model lets
\* it run the round.
calculateStreakCanStep ==
  /\ streakLoop.kind = "calculateStreak"
  /\ streakLoop.pc = "loop"
  /\ streakLoop.streak < MaxRounds

\* One round of "for (let i = 0; ; i++)": the key of the day i days back, then
\* the body.
calculateStreakStep ==
  /\ calculateStreakCanStep
  /\ streakLoop' = calculateStreakRound(streakLoop, streakKey(tz, now, streakLoop.i))
  /\ UNCHANGED <<appVars, nonLoopVars>>

\* return streak
streakReturned ==
  /\ streakLoop.pc = "done"
  /\ streakLoop' = NoLoop
  /\ UNCHANGED <<appVars, nonLoopVars>>

\* ---- the clock ----

\* Hours the clock advances in one run.
MaxTicks == 3

\* The dashboard is opened late in the local evening: 23:00 in Berlin, 22:00
\* in Bogota.
ClockScenarios ==
  { <<"Europe/Berlin", At(2024, 3, 4, 22)>>,
    <<"America/Bogota", At(2024, 3, 2, 3)>> }

\* An hour passes while the page stays open. No state of the pages depends on
\* the clock: today is a useMemo with no dependencies, and nothing re-renders.
clockAdvances ==
  /\ \E sc \in ClockScenarios : tz = sc[1] /\ now < sc[2] + MaxTicks
  /\ now' = now + 1
  /\ UNCHANGED <<tz, storeVars, pageVars, compVars>>

\* ---- the Add Habit modal (src/components/AddHabitModal.tsx) ----

\* Openings of the modal and handleSave calls in one run.
MaxOpenings == 2

MaxSaves == 3

\* The ids addDoc gives the new habit documents, by the number of the call.
NewIds == <<"n1", "n2", "n3", "n4", "n5", "n6">>

\* The names typed into the form: none, or a name.
Names == {"", "Read"}

\* onClick={() => setShowAddHabit(true)}: the modal mounts with its useState values.
openModal ==
  /\ ~showAddHabit
  /\ opening < MaxOpenings
  /\ showAddHabit' = TRUE
  /\ opening' = opening + 1
  /\ modalName' = ""
  /\ modalLoading' = FALSE
  /\ modalError' = ""
  /\ createdSinceOpen' = 0
  /\ UNCHANGED <<appVars, nonModalVars, saves, closeTimers, saveCalls>>

\* onChange={(e) => setName(e.target.value)}
setName(v) ==
  /\ showAddHabit
  /\ modalName' = v
  /\ UNCHANGED <<appVars, nonModalVars, showAddHabit, modalLoading, modalError, saves,
                 closeTimers, opening, saveCalls, createdSinceOpen>>

\* The Cancel and close buttons (onClick={onClose}): the modal unmounts.
closeModal ==
  /\ showAddHabit
  /\ showAddHabit' = FALSE
  /\ UNCHANGED <<appVars, nonModalVars, modalName, modalLoading, modalError, saves,
                 closeTimers, opening, saveCalls, createdSinceOpen>>

\* onClick={handleSave} disabled={loading || !name.trim()}, up to "await addDoc(...)":
\* setLoading(true); setError("").
handleSave ==
  /\ showAddHabit
  /\ ~modalLoading
  /\ modalName # ""
  /\ user # NoUser
  /\ saveCalls < MaxSaves
  /\ saveCalls' = saveCalls + 1
  /\ modalLoading' = TRUE
  /\ modalError' = ""
  /\ saves' = saves \cup {[n |-> saveCalls + 1, opening |-> opening]}
  /\ UNCHANGED <<appVars, nonModalVars, showAddHabit, modalName, closeTimers, opening,
                 createdSinceOpen>>

\* Whether the modal instance that made the call is still mounted (the state
\* setters of an unmounted instance do nothing).
stillMounted(save) == showAddHabit /\ save.opening = opening

\* addDoc resolves: the document exists; setSuccessAnimation(true) and
\* setTimeout(() => onClose(), 1200).
addDocResolved(save) ==
  /\ save \in saves
  /\ saves' = saves \ {save}
  /\ habitDocs' = Append(habitDocs, NewIds[save.n])
  /\ closeTimers' = closeTimers \cup {save.n}
  /\ createdSinceOpen' = IF showAddHabit THEN createdSinceOpen + 1 ELSE createdSinceOpen
  /\ UNCHANGED <<envVars, logDocs, delBatch, writes, pageVars, nonModalVars, showAddHabit,
                 modalName, modalLoading, modalError, opening, saveCalls>>

\* addDoc rejects: setError("Failed to save habit. Please try again."); setLoading(false).
addDocRejected(save) ==
  /\ save \in saves
  /\ saves' = saves \ {save}
  /\ modalError' = IF stillMounted(save) THEN "Failed to save habit. Please try again." ELSE modalError
  /\ modalLoading' = IF stillMounted(save) THEN FALSE ELSE modalLoading
  /\ UNCHANGED <<appVars, nonModalVars, showAddHabit, modalName, closeTimers, opening,
                 saveCalls, createdSinceOpen>>

\* The 1200 ms timer of a resolved save fires: onClose(), which is
\* setShowAddHabit(false) of the dashboard.
closeTimerFires(n) ==
  /\ n \in closeTimers
  /\ closeTimers' = closeTimers \ {n}
  /\ showAddHabit' = FALSE
  /\ UNCHANGED <<appVars, nonModalVars, modalName, modalLoading, modalError, saves,
                 opening, saveCalls, createdSinceOpen>>

\* ---- the analytics page ----

\* Mounting the analytics page: the useState initial values and the first rangeDays.
OpenAnalytics ==
  /\ page = "dashboard"
  /\ page' = "analytics"
  /\ habits' = <<>>
  /\ logs' = <<>>
  /\ snapDocs' = <<>>
  /\ view' = "week"
  /\ today' = <<>>
  /\ viewBaseDate' = getToday(tz, now)
  /\ dateRange' = <<>>
  /\ aHabits' = <<>>
  /\ aLogs' = <<>>
  /\ selectedHabitId' = "all"
  /\ timeRange' = "30d"
  /\ customStart' = <<>>
  /\ customEnd' = <<>>
  /\ rangeDays' = rangeDaysMemo(tz, now, "30d", <<>>, <<>>)
  /\ UNCHANGED <<envVars, widgetVars, storeVars, navs>>

AnaHabitsSnapshot ==
  /\ page = "analytics"
  /\ aHabits # habitListOf(habitDocs)
  /\ aHabits' = habitListOf(habitDocs)
  /\ UNCHANGED <<envVars, compVars, storeVars, page, dashVars, navVars, aLogs, selectedHabitId, anaRangeVars>>

AnaLogsSnapshot ==
  /\ page = "analytics"
  /\ aLogs # logListOf(logDocs)
  /\ aLogs' = logListOf(logDocs)
  /\ UNCHANGED <<envVars, compVars, storeVars, page, dashVars, navVars, aHabits, selectedHabitId, anaRangeVars>>

\* onChange={(e) => setSelectedHabitId(e.target.value)}
setSelectedHabitId(id) ==
  /\ page = "analytics"
  /\ selectedHabitId' = id
  /\ UNCHANGED <<envVars, compVars, storeVars, page, dashVars, navVars, aHabits, aLogs, anaRangeVars>>

\* onClick={() => setTimeRange(tab.id)}
setTimeRange(r) ==
  /\ page = "analytics"
  /\ timeRange' = r
  /\ rangeDays' = rangeDaysMemo(tz, now, r, customStart, customEnd)
  /\ UNCHANGED <<envVars, compVars, storeVars, page, dashVars, navVars, anaVars, customStart, customEnd>>

\* onChange={(e) => setCustomStart(e.target.value)}
setCustomStart(d) ==
  /\ page = "analytics"
  /\ customStart' = d
  /\ rangeDays' = rangeDaysMemo(tz, now, timeRange, d, customEnd)
  /\ UNCHANGED <<envVars, compVars, storeVars, page, dashVars, navVars, anaVars, timeRange, customEnd>>

\* onChange={(e) => setCustomEnd(e.target.value)}
setCustomEnd(d) ==
  /\ page = "analytics"
  /\ customEnd' = d
  /\ rangeDays' = rangeDaysMemo(tz, now, timeRange, customStart, d)
  /\ UNCHANGED <<envVars, compVars, storeVars, page, dashVars, navVars, anaVars, timeRange, customStart>>

(***************************************************************************)
(* Spec: a user with two habits; completions are toggled on the dashboard, *)
(* a habit is deleted from the habit list, and each listener delivers its  *)
(* snapshots on its own.                                                   *)
(***************************************************************************)
SyncScenarios ==
  { <<"Asia/Beirut", At(2024, 3, 31, 10)>>,
    <<"America/Bogota", At(2024, 3, 1, 15)>> }

\* The habitLogs the user starts with: none, or every habit done on every
\* day of the week on display.
Histories(z, n) ==
  { <<>>,
    [k \in HabitIds \X Range(weekRange(z, getToday(z, n))) |->
       [habitId |-> k[1], date |-> k[2], completed |-> TRUE]] }

\* useState<string | null>(null), useState("") in HabitList; no call in flight.
ListIdle ==
  /\ deletingId = "null"
  /\ listError = ""
  /\ deletions = {}
  /\ started = 0

\* A verified user is signed in, the user document exists, a page is shown.
SignedIn ==
  /\ user = [uid |-> "u1", emailVerified |-> TRUE]
  /\ loading = FALSE
  /\ userDocs = [u \in {"u1"} |-> userDocOf("u1", 0)]
  /\ authTasks = {}
  /\ authCalls = 0
  /\ screen = "app"
  /\ gateTimer = NoTimer

\* useState(false) of showAddHabit: the modal is not mounted, nothing is pending.
ModalClosed ==
  /\ showAddHabit = FALSE
  /\ modalName = ""
  /\ modalLoading = FALSE
  /\ modalError = ""
  /\ saves = {}
  /\ closeTimers = {}
  /\ opening = 0
  /\ saveCalls = 0
  /\ createdSinceOpen = 0

\* Every component other than the two pages in its initial state.
CompIdle == ListIdle /\ SignedIn /\ ModalClosed /\ LoopIdle

\* The dashboard as it mounts.
DashboardMounted(z, n) ==
  /\ tz = z
  /\ now = n
  /\ delBatch = NoBatch
  /\ writes = 0
  /\ navs = 0
  /\ page = "dashboard"
  /\ habits = <<>>
  /\ logs = <<>>
  /\ snapDocs = <<>>
  /\ view = "week"
  /\ today = getToday(z, n)
  /\ viewBaseDate = getToday(z, n)
  /\ dateRange = dateRangeMemo(z, "week", getToday(z, n))
  /\ aHabits = <<>>
  /\ aLogs = <<>>
  /\ selectedHabitId = "all"
  /\ timeRange = "30d"
  /\ customStart = <<>>
  /\ customEnd = <<>>
  /\ rangeDays = <<>>

Mounted(z, n) == CompIdle /\ DashboardMounted(z, n)

Init ==
  \E sc \in SyncScenarios :
    /\ Mounted(sc[1], sc[2])
    /\ habitDocs = <<"h1", "h2">>
    /\ logDocs \in Histories(sc[1], sc[2])

Next ==
  \/ DashHabitsSnapshot
  \/ DashLogsSnapshot
  \/ \E h \in HabitIds : \E d \in Window(tz, now) : toggleHabit(h, d)
  \/ \E h \in HabitIds : DeleteQuery(h)
  \/ DeleteCommit
  \/ OpenAnalytics
  \/ OpenDashboard
  \/ AnaHabitsSnapshot
  \/ AnaLogsSnapshot
  \/ \E r \in {"7d", "30d"} : setTimeRange(r)

Spec == Init /\ [][Next]_vars

(***************************************************************************)
(* SpecRange: the dashboard's header: the view tabs and the two arrows,    *)
(* for users in each zone who open the dashboard at one of a few instants. *)
(***************************************************************************)
\* A Monday, the first day of a year, the first day of a month, and a day
\* of a century year that is not a leap year; each at 15:00 UTC.
RangeInstants ==
  { At(2024, 3, 4, 15), At(2024, 1, 1, 15), At(2024, 3, 1, 15), At(2100, 3, 1, 15) }

InitRange ==
  \E z \in Zones : \E n \in RangeInstants :
    /\ Mounted(z, n)
    /\ habitDocs = <<"h1", "h2">>
    /\ logDocs = <<>>

NextRange ==
  \/ \E m \in ViewModes : setView(m)
  \/ navigateView(-1)
  \/ navigateView(1)

SpecRange == InitRange /\ [][NextRange]_vars

(***************************************************************************)
(* SpecAnalytics: the analytics page of a user whose habits h1 and h2 have *)
(* completions on the last few days; the user picks time ranges, custom    *)
(* dates and a habit while the two listeners deliver.                      *)
(***************************************************************************)
\* Late evening UTC in Berlin (local time is past midnight, two days after
\* DST began), and midday in Bogota.
AnalyticsScenarios ==
  { <<"Europe/Berlin", At(2024, 4, 1, 23)>>,
    <<"America/Bogota", At(2024, 3, 1, 15)>> }

\* Completions reach back this many days from today.
MaxHistory == 2

\* The custom dates picked reach back this many days from today.
MaxPick == 2

RecentDays(z, n, from, to) == {addDays(z, getToday(z, n), -k) : k \in from..to}

\* h1 done on any of the recent days; h2 done yesterday.
AnalyticsHistories(z, n) ==
  { [k \in ({"h1"} \X D1) \cup ({"h2"} \X RecentDays(z, n, 1, 1)) |->
       [habitId |-> k[1], date |-> k[2], completed |-> TRUE]] :
      D1 \in SUBSET RecentDays(z, n, 0, MaxHistory) }

MountedAnalytics(z, n) ==
  /\ CompIdle
  /\ tz = z
  /\ now = n
  /\ today = <<>>
  /\ delBatch = NoBatch
  /\ writes = 0
  /\ navs = 0
  /\ page = "analytics"
  /\ habits = <<>>
  /\ logs = <<>>
  /\ snapDocs = <<>>
  /\ view = "week"
  /\ viewBaseDate = getToday(z, n)
  /\ dateRange = <<>>
  /\ aHabits = <<>>
  /\ aLogs = <<>>
  /\ selectedHabitId = "all"
  /\ timeRange = "30d"
  /\ customStart = <<>>
  /\ customEnd = <<>>
  /\ rangeDays = rangeDaysMemo(z, n, "30d", <<>>, <<>>)

InitAnalytics ==
  \E sc \in AnalyticsScenarios :
    /\ MountedAnalytics(sc[1], sc[2])
    /\ habitDocs = <<"h1", "h2">>
    /\ logDocs \in AnalyticsHistories(sc[1], sc[2])

NextAnalytics ==
  \/ AnaHabitsSnapshot
  \/ AnaLogsSnapshot
  \/ \E r \in TimeRanges : setTimeRange(r)
  \/ \E d \in RecentDays(tz, now, 1, MaxPick) : setCustomStart(d)
  \/ \E d \in RecentDays(tz, now, 1, MaxPick) : setCustomEnd(d)
  \/ \E id \in {"all", "h1"} : setSelectedHabitId(id)

SpecAnalytics == InitAnalytics /\ [][NextAnalytics]_vars

(***************************************************************************)
(* SpecTrend: the dashboard of a user with two weeks of completions of h1, *)
(* who switches views and toggles completions while the listeners deliver. *)
(***************************************************************************)
\* The completions of h1 reach back this many days from today.
MaxTrendBack == 13

TrendHistories(z, n) ==
  { <<>>,
    [k \in {"h1"} \X RecentDays(z, n, 0, MaxTrendBack) |->
       [habitId |-> k[1], date |-> k[2], completed |-> TRUE]] }

InitTrend ==
  \E sc \in SyncScenarios :
    /\ Mounted(sc[1], sc[2])
    /\ habitDocs = <<"h1", "h2">>
    /\ logDocs \in TrendHistories(sc[1], sc[2])

NextTrend ==
  \/ DashHabitsSnapshot
  \/ DashLogsSnapshot
  \/ \E m \in ViewModes : setView(m)
  \/ \E h \in HabitIds : \E d \in Window(tz, now) : toggleHabit(h, d)

SpecTrend == InitTrend /\ [][NextTrend]_vars

(***************************************************************************)
(* SpecIndex: the habitLogs listener of the dashboard applied to snapshots *)
(* of any content, documents that repeat a (habitId, date) pair included   *)
(* (the listener reads the fields of the documents, never their ids).      *)
(***************************************************************************)
\* A snapshot holds at most this many documents.
MaxRecords == 3

LogRecords(z, n) == [habitId : HabitIds, date : Window(z, n), completed : BOOLEAN]

RECURSIVE RecordLists(_, _)
RecordLists(R, len) ==
  IF len = 0 THEN {<<>>}
  ELSE RecordLists(R, len - 1)
         \cup {Append(l, r) : l \in {x \in RecordLists(R, len - 1) : Len(x) = len - 1}, r \in R}

\* The dashboard after the listener handled a first snapshot, of one document
\* at most.
InitIndex ==
  /\ CompIdle
  /\ tz = "Europe/Berlin"
  /\ now = At(2024, 3, 4, 15)
  /\ delBatch = NoBatch
  /\ writes = 0
  /\ navs = 0
  /\ page = "dashboard"
  /\ habitDocs = <<"h1", "h2">>
  /\ habits = habitDocs
  /\ logDocs = <<>>
  /\ snapDocs \in RecordLists(LogRecords(tz, now), 1)
  /\ logs = buildLogMap(snapDocs)
  /\ view = "week"
  /\ today = getToday(tz, now)
  /\ viewBaseDate = getToday(tz, now)
  /\ dateRange = dateRangeMemo(tz, view, viewBaseDate)
  /\ aHabits = <<>>
  /\ aLogs = <<>>
  /\ timeRange = "30d"
  /\ customStart = <<>>
  /\ customEnd = <<>>
  /\ selectedHabitId = "all"
  /\ rangeDays = <<>>

NextIndex == \E recs \in RecordLists(LogRecords(tz, now), MaxRecords) : onLogsSnapshot(recs)

SpecIndex == InitIndex /\ [][NextIndex]_vars

(***************************************************************************)
(* SpecEmpty: first loads and empty inputs. The user has no habit or two,  *)
(* the store holds completions of h1 or none (logs of a habit that is not  *)
(* listed included), and either page is opened, its listeners deliver one  *)
(* by one, and the view and the custom range are picked.                   *)
(***************************************************************************)
InitEmpty ==
  \E sc \in SyncScenarios :
    /\ Mounted(sc[1], sc[2])
    /\ habitDocs \in {<<>>, <<"h1", "h2">>}
    /\ logDocs \in TrendHistories(sc[1], sc[2])

NextEmpty ==
  \/ DashHabitsSnapshot
  \/ DashLogsSnapshot
  \/ \E m \in ViewModes : setView(m)
  \/ OpenAnalytics
  \/ OpenDashboard
  \/ AnaHabitsSnapshot
  \/ AnaLogsSnapshot
  \/ \E r \in {"7d", "custom"} : setTimeRange(r)
  \/ \E d \in RecentDays(tz, now, 1, MaxPick) : setCustomStart(d)
  \/ \E d \in RecentDays(tz, now, 1, MaxPick) : setCustomEnd(d)

SpecEmpty == InitEmpty /\ [][NextEmpty]_vars

(***************************************************************************)
(* SpecList: the habit list of a user with two habits, who clicks Delete   *)
(* on habits while earlier deletions are still running; each deletion      *)
(* succeeds or fails.                                                      *)
(***************************************************************************)
InitList ==
  \E sc \in SyncScenarios :
    /\ Mounted(sc[1], sc[2])
    /\ habitDocs = <<"h1", "h2">>
    /\ logDocs \in Histories(sc[1], sc[2])

NextList ==
  \/ \E h \in HabitIds : handleDelete(h)
  \/ \E del \in deletions : deleteQueried(del)
  \/ \E del \in deletions : deleteSucceeded(del)
  \/ \E del \in deletions : deleteFailed(del)

SpecList == InitList /\ [][NextList]_vars

(***************************************************************************)
(* SpecAuth: the app is opened at the root gate or directly at the         *)
(* dashboard while the auth state is still loading; the auth state then    *)
(* changes (signed out, signed in with the email verified or not), in this *)
(* session and in another one, and the Firestore side effects of the       *)
(* callbacks run on their own. SpecAuthFair adds that a pending timer of   *)
(* the gate fires.                                                         *)
(***************************************************************************)
InitAuth ==
  /\ DashboardMounted("Europe/Berlin", At(2024, 3, 4, 15))
  /\ ListIdle
  /\ ModalClosed
  /\ LoopIdle
  /\ habitDocs = <<"h1", "h2">>
  /\ logDocs = <<>>
  /\ user = NoUser
  /\ loading = TRUE
  /\ userDocs \in {<<>>, [u \in {"u1"} |-> userDocOf("u1", 0)]}
  /\ authTasks = {}
  /\ authCalls = 0
  /\ \/ screen = "gate" /\ gateTimer = [armed |-> TRUE, loading |-> TRUE, user |-> NoUser]
     \/ screen = "app" /\ gateTimer = NoTimer

NextAuth ==
  \/ \E u \in Users \cup {NoUser} : authStateChanged(u)
  \/ \E u \in Users : otherSessionAuthStateChanged(u)
  \/ \E task \in authTasks : userDocRead(task)
  \/ \E task \in authTasks : userDocWritten(task)
  \/ \E task \in authTasks : userDocFailed(task)
  \/ gateTimerFires

SpecAuth == InitAuth /\ [][NextAuth]_vars

SpecAuthFair == SpecAuth /\ WF_vars(gateTimerFires)

(***************************************************************************)
(* SpecLoops: getStreak and calculateStreak are called with every set of   *)
(* completed dates of the last days, every starting day and with or        *)
(* without rangeDays, and run one round at a time. SpecLoopsFair adds that *)
(* a loop that can run a round does run it.                                *)
(***************************************************************************)
LoopScenarios ==
  { <<"Europe/Berlin", At(2024, 3, 31, 23)>>,
    <<"America/Bogota", At(2024, 3, 1, 15)>>,
    <<"Asia/Beirut", At(2024, 3, 31, 10)>> }

InitLoops ==
  \E sc \in LoopScenarios :
    /\ Mounted(sc[1], sc[2])
    /\ habitDocs = <<"h1", "h2">>
    /\ logDocs = <<>>

NextLoops ==
  \/ \E set \in SUBSET LoopDays(tz, now) : \E d \in LoopDays(tz, now) : getStreakCalled(set, d)
  \/ getStreakStep
  \/ \E set \in SUBSET LoopDays(tz, now) : \E r \in LoopRanges(tz, now) :
        \E hasRange \in BOOLEAN : calculateStreakCalled(set, hasRange, r)
  \/ calculateStreakStep
  \/ streakReturned

SpecLoops == InitLoops /\ [][NextLoops]_vars

\* A synchronous loop runs on until it exits: weak fairness of each step,
\* WF_vars(getStreakStep) and WF_vars(calculateStreakStep), written with the
\* guard of the step in place of ENABLED <<step>>_vars (a step always changes
\* streakLoop, so the step is enabled exactly when its guard holds).
SpecLoopsFair ==
  /\ SpecLoops
  /\ ([]<>(~getStreakCanStep) \/ []<><<getStreakStep>>_vars)
  /\ ([]<>(~calculateStreakCanStep) \/ []<><<calculateStreakStep>>_vars)

(***************************************************************************)
(* SpecClock: the dashboard is opened in the last hours of a local day and *)
(* stays open while the clock runs past midnight; the listeners deliver,   *)
(* cells are clicked and the pages are switched at any hour.               *)
(***************************************************************************)
InitClock ==
  \E sc \in ClockScenarios :
    /\ Mounted(sc[1], sc[2])
    /\ habitDocs = <<"h1", "h2">>
    /\ logDocs \in Histories(sc[1], sc[2])

NextClock ==
  \/ clockAdvances
  \/ DashHabitsSnapshot
  \/ DashLogsSnapshot
  \/ \E h \in HabitIds : \E d \in Window(tz, now) : toggleHabit(h, d)
  \/ OpenAnalytics
  \/ OpenDashboard

SpecClock == InitClock /\ [][NextClock]_vars

(***************************************************************************)
(* SpecModal: the Add Habit modal of a signed-in user is opened, filled,   *)
(* submitted, cancelled and opened again, while each write resolves or is  *)
(* rejected after any delay.                                               *)
(***************************************************************************)
InitModal ==
  /\ Mounted("Europe/Berlin", At(2024, 3, 4, 15))
  /\ habitDocs \in {<<>>, <<"h1", "h2">>}
  /\ logDocs = <<>>

NextModal ==
  \/ openModal
  \/ \E v \in Names : setName(v)
  \/ closeModal
  \/ handleSave
  \/ \E save \in saves : addDocResolved(save)
  \/ \E save \in saves : addDocRejected(save)
  \/ \E n \in closeTimers : closeTimerFires(n)

SpecModal == InitModal /\ [][NextModal]_vars

(***************************************************************************)
(* The calendar the properties are stated in: a day identifier is a civil  *)
(* date, and the day k days after it is found by counting days.            *)
(***************************************************************************)
DayOf(d) == DayFromCivil(d[1], d[2], d[3])

DayShift(d, k) == CivilFromDay(DayOf(d) + k)

IsLeapYear(y) == y % 4 = 0 /\ (y % 100 # 0 \/ y % 400 = 0)

MonthLength(y, m) ==
  IF m = 2 THEN (IF IsLeapYear(y) THEN 29 ELSE 28)
  ELSE IF m \in {4, 6, 9, 11} THEN 30 ELSE 31

\* The Monday of the week (Monday to Sunday) that contains d.
MondayOf(d) == DayShift(d, -((WeekDay(DayOf(d)) + 6) % 7))

\* Each entry is exactly one calendar day after the previous entry.
Gapless(r) == \A i \in 1..(Len(r) - 1) : DayOf(r[i + 1]) = DayOf(r[i]) + 1

\* The pairs (h, d) with h a listed habit, d a day of the range and d in the
\* completed-date set of h.
CompletedPairs(hs, logMap, range) ==
  {p \in Range(hs) \X Range(range) : p[1] \in DOMAIN logMap /\ p[2] \in logMap[p[1]]}

\* The largest k such that d, d-1, ..., d-(k-1) are all in S.
LongestRunEndingAt(S, d) ==
  CHOOSE k \in 0..Cardinality(S) :
    /\ \A j \in 0..(k - 1) : DayShift(d, -j) \in S
    /\ DayShift(d, -k) \notin S

\* S holds k consecutive days starting somewhere.
HasRun(S, k) == \E d \in S : \A j \in 0..(k - 1) : DayShift(d, j) \in S

\* The length of the longest run of consecutive days in S; 0 for no days.
LongestRun(S) ==
  CHOOSE k \in 0..Cardinality(S) : (k = 0 \/ HasRun(S, k)) /\ ~HasRun(S, k + 1)

(***************************************************************************)
(* Properties.                                                             *)
(***************************************************************************)

\* C1: on the dashboard, whenever there is a habit and a day in the range,
\* progressPercent is round(100 * completedCount / (|habits| * |range|)) where
\* completedCount counts only the pairs (h, d) with h in the habit list, d in
\* the range and d completed for h; completions stored under a habitId that is
\* not in the habit list count for nothing.
C1_ProgressCountsListedHabitsOnly ==
  (page = "dashboard" /\ Len(habits) * Len(dateRange) > 0)
    => progressPercent(habits, logs, dateRange)
         = MathRoundPercent(Cardinality(CompletedPairs(habits, logs, dateRange)),
                            Len(habits) * Len(dateRange))

\* C2: in every reachable state the completion rate on display, the
\* dashboard's progressPercent or the analytics page's stats.completionRate,
\* is an integer from 0 to 100.
C2_CompletionRateWithin0And100 ==
  /\ page = "dashboard" => progressPercent(habits, logs, dateRange) \in 0..100
  /\ page = "analytics"
       => stats(tz, now, aHabits, aLogs, selectedHabitId, rangeDays).completionRate \in 0..100

\* C3: for every habit and every day of the range as asOfDate, getStreak is the
\* largest k such that asOfDate, asOfDate-1, ..., asOfDate-(k-1) are all
\* completed; it is 0 when the habit has no entry in the index or asOfDate is
\* not completed, and 1 when only asOfDate is completed.
C3_GetStreakIsRunEndingAtAsOfDate ==
  page = "dashboard" =>
    \A h \in HabitIds : \A d \in Range(dateRange) :
      /\ h \notin DOMAIN logs => getStreak(tz, logs, h, d) = 0
      /\ h \in DOMAIN logs =>
           /\ getStreak(tz, logs, h, d) = LongestRunEndingAt(logs[h], d)
           /\ d \notin logs[h] => getStreak(tz, logs, h, d) = 0
           /\ logs[h] = {d} => getStreak(tz, logs, h, d) = 1

\* C3 witness: in Beirut on the day DST begins, h1 is done on all seven days
\* of the week (streak 7) and h2 on all but yesterday (streak 1).
C3_Witness ==
  /\ page = "dashboard"
  /\ tz = "Asia/Beirut"
  /\ DOMAIN logs = HabitIds
  /\ Cardinality(logs["h2"]) = 6
  /\ getStreak(tz, logs, "h1", getToday(tz, now)) = 7
  /\ getStreak(tz, logs, "h2", getToday(tz, now)) = 1

\* C4: calculateBestStreak(dates, rangeDays), for a list of dates with
\* duplicates in any order, is the length of the longest run of
\* calendar-consecutive dates that lie in rangeDays, and 0 when none does.
C4_BestStreakIsLongestRunInRange ==
  page = "analytics" =>
    calculateBestStreak(allCompletedDates(filteredLogs(aLogs, selectedHabitId)), TRUE, rangeDays)
      = LongestRun(Range(allCompletedDates(filteredLogs(aLogs, selectedHabitId)))
                     \cap Range(rangeDays))

\* C4 witness: the list holds a date twice and a date outside the range, and
\* the best streak is at least 2.
C4_Witness ==
  /\ page = "analytics"
  /\ Len(allCompletedDates(filteredLogs(aLogs, selectedHabitId)))
       > Cardinality(Range(allCompletedDates(filteredLogs(aLogs, selectedHabitId))))
  /\ \E d \in Range(allCompletedDates(filteredLogs(aLogs, selectedHabitId))) :
       ~includes(rangeDays, d)
  /\ calculateBestStreak(allCompletedDates(filteredLogs(aLogs, selectedHabitId)), TRUE, rangeDays) >= 2

\* C5: on the analytics page the Best Streak of stats is at least the Current
\* Streak of the same stats, for every log list and every time range.
C5_BestStreakAtLeastCurrent ==
  page = "analytics" =>
    stats(tz, now, aHabits, aLogs, selectedHabitId, rangeDays).bestStreak
      >= stats(tz, now, aHabits, aLogs, selectedHabitId, rangeDays).currentStreak

\* C6: in the week view dateRange has exactly 7 entries, the first is the
\* Monday of the week that contains viewBaseDate, and viewBaseDate is one of
\* the entries, in every time zone.
C6_WeekViewStartsOnMondayOfAnchor ==
  (page = "dashboard" /\ view = "week") =>
    /\ Len(dateRange) = 7
    /\ dateRange[1] = MondayOf(viewBaseDate)
    /\ includes(dateRange, viewBaseDate)

\* C7: in the month view dateRange is the days 1..L of the month that contains
\* viewBaseDate, L the length of that month, in every time zone.
C7_MonthViewIsAnchorMonth ==
  (page = "dashboard" /\ view = "month") =>
    dateRange = [i \in 1..MonthLength(viewBaseDate[1], viewBaseDate[2]) |->
                   <<viewBaseDate[1], viewBaseDate[2], i>>]

\* C8: in the year view dateRange runs from January 1 to December 31 of the
\* year that contains viewBaseDate, with 366 entries in a leap year and 365
\* otherwise, in every time zone.
C8_YearViewIsAnchorYear ==
  (page = "dashboard" /\ view = "year") =>
    /\ Len(dateRange) = (IF IsLeapYear(viewBaseDate[1]) THEN 366 ELSE 365)
    /\ dateRange[1] = <<viewBaseDate[1], 1, 1>>
    /\ dateRange[Len(dateRange)] = <<viewBaseDate[1], 12, 31>>

\* C9: in the allTime view dateRange has exactly 90 entries, the last is
\* viewBaseDate and the first is the day 89 days before viewBaseDate.
C9_AllTimeIs90DaysEndingAtAnchor ==
  (page = "dashboard" /\ view = "allTime") =>
    /\ Len(dateRange) = 90
    /\ dateRange[90] = viewBaseDate
    /\ dateRange[1] = DayShift(viewBaseDate, -89)

\* C9 witness: an allTime range reached with the arrows that spans the day DST
\* begins in Beirut.
C9_Witness ==
  /\ page = "dashboard"
  /\ view = "allTime"
  /\ navs > 0
  /\ tz = "Asia/Beirut"
  /\ includes(dateRange, <<2024, 3, 31>>)

\* The dashboard's part of C10: the range on display is gapless.
DashboardRangeGapless == page = "dashboard" => Gapless(dateRange)

\* The analytics page's part of C10: rangeDays is gapless.
AnalyticsRangeGapless == page = "analytics" => Gapless(rangeDays)

\* C10: every range the program generates, the dashboard's dateRange and the
\* analytics page's rangeDays from generateDateRange and
\* generateCustomDateRange, is strictly ascending with each entry exactly one
\* calendar day after the previous one, at every time of day and in every
\* time zone.
C10_EveryRangeGapless == DashboardRangeGapless /\ AnalyticsRangeGapless

\* The months counted from year 0: adjacent calendar months differ by one.
MonthIndex(d) == d[1] * 12 + d[2]

\* What a click on an arrow has to do in the view on display.
MovedOneUnit(direction) ==
  /\ view = "week" => DayOf(viewBaseDate') = DayOf(viewBaseDate) + 7 * direction
  /\ view = "allTime" => DayOf(viewBaseDate') = DayOf(viewBaseDate) + 90 * direction
  /\ view = "month" =>
       /\ MonthIndex(dateRange'[1]) = MonthIndex(dateRange[1]) + direction
       /\ MonthIndex(dateRange'[Len(dateRange')]) = MonthIndex(dateRange[1]) + direction
  /\ view = "year" =>
       /\ dateRange'[1][1] = dateRange[1][1] + direction
       /\ dateRange'[Len(dateRange')][1] = dateRange[1][1] + direction

\* C11: navigateView(direction) moves the anchor by exactly one unit of the
\* view: 7 days in the week view, 90 days in the allTime view; in the month
\* view the new range is the calendar month next to the one shown before, in
\* the year view the calendar year next to it; for every anchor and time zone.
C11_NavigateMovesOneUnit ==
  [][\A direction \in {-1, 1} : navigateView(direction) => MovedOneUnit(direction)]_vars

\* a and b lie in the same week, month, year or in the 90 days ending at a.
SameUnit(v, a, b) ==
  CASE v = "week"  -> MondayOf(a) = MondayOf(b)
    [] v = "month" -> a[1] = b[1] /\ a[2] = b[2]
    [] v = "year"  -> a[1] = b[1]
    [] OTHER       -> DayOf(a) - 89 <= DayOf(b) /\ DayOf(b) <= DayOf(a)

\* The anchor after navigateView(1) followed by navigateView(-1).
ThereAndBack(z, v, baseStr) == navigatedBase(z, v, navigatedBase(z, v, baseStr, 1), -1)

\* C12: in every view and for every anchor, navigateView(+1) followed by
\* navigateView(-1) ends at an anchor in the same week, the same month, the
\* same year or the same 90-day window as the anchor it started from.
C12_ThereAndBackStaysInUnit ==
  page = "dashboard" => SameUnit(view, viewBaseDate, ThereAndBack(tz, view, viewBaseDate))

\* The range of the same length that ends the day before the range begins.
PriorRange(range) == [i \in 1..Len(range) |-> DayShift(range[i], -Len(range))]

\* round(100 * completedCount / (|habits| * |range|)), 0 without habits or days.
RateOver(hs, logMap, range) ==
  IF Len(hs) * Len(range) = 0 THEN 0
  ELSE MathRoundPercent(Cardinality(CompletedPairs(hs, logMap, range)), Len(hs) * Len(range))

\* C13: in every view the trend delta is the completion rate of the range on
\* display minus the completion rate of the prior range, which has the same
\* length and is the range shifted back by that length; each rate is taken
\* over |habits| * (length of its range).
C13_DeltaComparesWithPriorRange ==
  page = "dashboard" =>
    delta(tz, habits, logs, dateRange)
      = RateOver(habits, logs, dateRange) - RateOver(habits, logs, PriorRange(dateRange))

\* The positions of the records of the pair (h, d) in a snapshot.
RecordsOf(recs, h, d) == {i \in 1..Len(recs) : recs[i].habitId = h /\ recs[i].date = d}

\* The completed flag of the last record of the pair, FALSE without a record.
LastWins(recs, h, d) ==
  /\ RecordsOf(recs, h, d) # {}
  /\ recs[CHOOSE i \in RecordsOf(recs, h, d) : \A j \in RecordsOf(recs, h, d) : j <= i].completed

CompletedIn(recs, h) == {recs[i].date : i \in {j \in 1..Len(recs) : recs[j].habitId = h /\ recs[j].completed}}

\* C15: the logs index is a function of the most recent habitLogs snapshot
\* only: its keys are the habits with a completed record in that snapshot and
\* each set holds exactly the dates that snapshot records as completed,
\* whatever earlier snapshots held.
C15_IndexIsOfLatestSnapshotOnly ==
  page = "dashboard" =>
    /\ DOMAIN logs = {h \in {snapDocs[i].habitId : i \in 1..Len(snapDocs)} : CompletedIn(snapDocs, h) # {}}
    /\ \A h \in DOMAIN logs : logs[h] = CompletedIn(snapDocs, h)

\* The latest snapshot holds a record that toggleHabit un-completed (a write of
\* completed = false is made only when the index of an earlier snapshot held
\* the date), other completions are indexed, and that date is not in the index.
C15_Witness ==
  /\ page = "dashboard"
  /\ writes > 0
  /\ logs # <<>>
  /\ \E i \in 1..Len(snapDocs) :
       /\ ~snapDocs[i].completed
       /\ snapDocs[i].habitId \in DOMAIN logs
       /\ snapDocs[i].date \notin logs[snapDocs[i].habitId]

\* C16: the day the analytics page takes for today, which is the last entry
\* of generateDateRange(n) and the first key calculateStreak looks up, is the
\* user's local calendar date, the one getToday gives the dashboard.
C16_AnalyticsTodayIsLocalToday ==
  page = "analytics" =>
    /\ streakKey(tz, now, 0) = getToday(tz, now)
    /\ ~(timeRange = "custom" /\ customStart # <<>> /\ customEnd # <<>>)
         => rangeDays[Len(rangeDays)] = getToday(tz, now)

\* The documents of the store that record the pair (h, d).
PairDocs(docs, h, d) == {k \in DOMAIN docs : docs[k].habitId = h /\ docs[k].date = d}

\* The store after toggleHabit(h, d) wrote checked: one record of the pair,
\* with that value, and every other document as it was.
WriteApplied(h, d, checked) ==
  /\ Cardinality(PairDocs(logDocs', h, d)) = 1
  /\ \A k \in PairDocs(logDocs', h, d) : logDocs'[k].completed = checked
  /\ \A k \in DOMAIN logDocs \ PairDocs(logDocs, h, d) :
       k \in DOMAIN logDocs' /\ logDocs'[k] = logDocs[k]
  /\ DOMAIN logDocs' \ PairDocs(logDocs', h, d) \subseteq DOMAIN logDocs

\* C17: whatever toggleHabit calls were made, in whatever order with the
\* listeners and the deletions, the store holds at most one record of each
\* (habitId, date) pair, and each toggleHabit write leaves the pair with one
\* record whose completed field is the value it passed (so the record carries
\* the value of the write applied last for the pair) and touches no other pair.
C17_OneRecordPerPairLastWriteWins ==
  /\ [](\A h \in HabitIds : \A d \in Window(tz, now) : Cardinality(PairDocs(logDocs, h, d)) <= 1)
  /\ [][\A h \in HabitIds : \A d \in Window(tz, now) :
          toggleHabit(h, d) => WriteApplied(h, d, ~(h \in DOMAIN logs /\ d \in logs[h]))]_vars

\* Every write of the run was made and the store holds a record that toggleHabit
\* wrote with completed = false, which it does for a pair the index showed as
\* completed.
C17_Witness ==
  /\ writes = MaxWrites
  /\ \E k \in DOMAIN logDocs : ~logDocs[k].completed

\* C18: when deleteHabitWithLogs completes (its batch commits), the habit
\* document is gone and the store holds no habitLogs document of that habit,
\* also when toggleHabit wrote for the habit between the query of the logs and
\* the commit.
C18_DeleteLeavesNoLogOfTheHabit ==
  [][DeleteCommit =>
       /\ ~includes(habitDocs', delBatch.habitId)
       /\ \A k \in DOMAIN logDocs' : logDocs'[k].habitId # delBatch.habitId]_vars

\* The days from a to b inclusive, in order.
DaysFromTo(a, b) == [i \in 1..(DayOf(b) - DayOf(a) + 1) |-> DayShift(a, i - 1)]

\* C19: with a custom range whose start is not after its end, the range of the
\* analytics page is exactly the days from start to end inclusive (end - start
\* + 1 entries, the first is start, the last is end), in every time zone.
C19_CustomRangeIsStartToEnd ==
  (/\ page = "analytics"
   /\ timeRange = "custom"
   /\ customStart # <<>>
   /\ customEnd # <<>>
   /\ DayOf(customStart) <= DayOf(customEnd))
    => rangeDays = DaysFromTo(customStart, customEnd)

\* C20: a custom range whose end precedes its start is rejected: no range is
\* produced from it, in particular not the empty range, so the range of the
\* analytics page (the one the statistics are computed from) is not empty
\* while such a pair is selected.
C20_InvalidCustomRangeGivesNoRange ==
  (/\ page = "analytics"
   /\ timeRange = "custom"
   /\ customStart # <<>>
   /\ customEnd # <<>>
   /\ DayOf(customEnd) < DayOf(customStart))
    => rangeDays # <<>>

\* C21: with an empty habit list or an empty date range, every completion
\* rate is exactly 0, whatever completion records are present: on the
\* dashboard the overall rate and the previous-period rate (for the range on
\* display and for the empty range), on the analytics page the completion rate
\* of the stats. The rates are computed without dividing by zero.
C21_RatesAreZeroOnEmptyInput ==
  /\ page = "dashboard" =>
       /\ progressPercent(habits, logs, <<>>) = 0
       /\ previousPercent(tz, habits, logs, <<>>) = 0
       /\ Len(habits) = 0 =>
            /\ progressPercent(habits, logs, dateRange) = 0
            /\ previousPercent(tz, habits, logs, dateRange) = 0
  /\ (page = "analytics"
        /\ Len(filteredHabits(aHabits, selectedHabitId)) * Len(rangeDays) = 0) =>
       stats(tz, now, aHabits, aLogs, selectedHabitId, rangeDays).completionRate = 0

\* The dashboard before its habits arrive, with completions indexed both in
\* the range on display and in the range of the week before.
C21_Witness ==
  /\ page = "dashboard"
  /\ habits = <<>>
  /\ totalCompleted(logs, dateRange) > 0
  /\ totalCompleted(logs, previousWeekRange(tz, dateRange)) > 0

\* The days that may be added to the index of a habit: the days of the range
\* on display and the day before it.
AddableDays == Range(dateRange) \cup {DayShift(dateRange[1], -1)}

\* C22: getStreak is monotone in the completion set: for every habit and every
\* asOfDate, adding a completed date to the habit's set never decreases
\* getStreak(habitId, asOfDate), and adding the day just before a run of
\* length k >= 1 that ends at asOfDate yields at least k + 1. (Adding several
\* dates is adding them one by one.)
C22_GetStreakIsMonotone ==
  page = "dashboard" =>
    \A h \in HabitIds : \A d \in Range(dateRange) :
      /\ \A e \in AddableDays :
           getStreak(tz, addToMap(logs, h, e), h, d) >= getStreak(tz, logs, h, d)
      /\ getStreak(tz, logs, h, d) >= 1 =>
           getStreak(tz, addToMap(logs, h, DayShift(d, -getStreak(tz, logs, h, d))), h, d)
             >= getStreak(tz, logs, h, d) + 1

\* A run ends at today with a gap before it, and filling the gap joins the run
\* with an earlier one: the streak grows by more than one.
C22_Witness ==
  /\ page = "dashboard"
  /\ \E h \in DOMAIN logs :
       /\ getStreak(tz, logs, h, getToday(tz, now)) >= 1
       /\ getStreak(tz, addToMap(logs, h, DayShift(getToday(tz, now), -getStreak(tz, logs, h, getToday(tz, now)))),
                    h, getToday(tz, now))
            > getStreak(tz, logs, h, getToday(tz, now)) + 1

\* The completed value the store holds for the pair: false without a document.
StoredCompleted(docs, h, d) == logDocId(h, d) \in DOMAIN docs /\ docs[logDocId(h, d)].completed

\* The store after the write of the second of two clicks on the cell (h, d),
\* the first of which left the store as docs1; the index the second click reads
\* is the one of the first click, or the one of a snapshot delivered in between.
AfterSecondClick(docs1, logMap, h, d, delivered) ==
  setLogDoc(docs1, h, d, clickValue(IF delivered THEN logMapOf(docs1) ELSE logMap, h, d))

AfterTwoClicks(docs, logMap, h, d, delivered) ==
  AfterSecondClick(setLogDoc(docs, h, d, clickValue(logMap, h, d)), logMap, h, d, delivered)

\* C23: clicking a day cell flips the stored completion: when a cell of a listed
\* habit is clicked twice, then after both writes the stored completed value of
\* the pair is the one it had before the first click, whether or not a logs
\* snapshot is delivered between the two clicks.
C23_TwoClicksRestoreTheStoredValue ==
  page = "dashboard" =>
    \A h \in Range(habits) : \A d \in Range(dateRange) \cap Window(tz, now) :
      \A delivered \in BOOLEAN :
        StoredCompleted(AfterTwoClicks(logDocs, logs, h, d, delivered), h, d)
          = StoredCompleted(logDocs, h, d)

\* C24: while a deletion of habit h started from the habit list is in flight,
\* deletingId is h (h's Delete button stays disabled, so the deletion of h is
\* not started a second time), also when the deletion of another habit is
\* started or finishes meanwhile; when no started deletion is left in flight,
\* deletingId is null.
C24_DeletingIdTracksDeletionsInFlight ==
  /\ \A del \in deletions : deletingId = del.habitId
  /\ \A d1 \in deletions : \A d2 \in deletions : d1.habitId = d2.habitId => d1.n = d2.n
  /\ deletions = {} => deletingId = "null"

\* C25: when the timer of the root gate fires, it routes to the dashboard
\* exactly when loading is false, a user is present and the user's email is
\* verified; in every other case with loading false it routes to /login; with
\* loading true it routes nowhere, and no step taken at the gate while loading
\* is true leaves the gate; and once loading is false at the gate, a routing
\* call eventually happens.
C25_GateRoutesByAuthState ==
  /\ [][gateTimerFires =>
          /\ screen' = "app" <=> (~loading /\ user # NoUser /\ user.emailVerified)
          /\ (~loading /\ ~(user # NoUser /\ user.emailVerified)) => screen' = "login"
          /\ loading => screen' = "gate"]_vars
  /\ [][(screen = "gate" /\ loading) => screen' = "gate"]_vars
  /\ (screen = "gate" /\ ~loading) ~> (screen # "gate")

\* The gate routed a verified user to the dashboard: its timer fired with that
\* user in its closure.
C25_Witness ==
  /\ screen = "app"
  /\ ~gateTimer.armed
  /\ gateTimer.user # NoUser
  /\ gateTimer.user.emailVerified

\* C26: dashboard content is never shown to a user who is signed out or whose
\* email is not verified: when loading is false and the user is absent or has
\* emailVerified = false, the dashboard does not render its content and is
\* not left on display (the router replaced it by /login), also when the
\* dashboard was opened directly, without the root gate.
C26_NoDashboardWithoutVerifiedUser ==
  (~loading /\ (user = NoUser \/ ~user.emailVerified)) =>
    /\ ~(screen = "app" /\ page = "dashboard" /\ dashboardRenders(user, loading))
    /\ ~(screen = "app" /\ page = "dashboard")

\* C27: AuthProvider creates users/{uid} only when none exists: no step, in any
\* interleaving of auth-state callbacks of this session and of another session
\* of the same user, changes the fields of a user document that exists; each
\* callback sets user and loading at once, and the outcome of its Firestore
\* read and write (found, created, failed) leaves them as they are.
C27_UserDocCreatedOnceOnly ==
  /\ [][\A uid \in DOMAIN userDocs :
          uid \in DOMAIN userDocs' /\ userDocs'[uid] = userDocs[uid]]_vars
  /\ [][\A u \in Users \cup {NoUser} : authStateChanged(u) => (user' = u /\ ~loading')]_vars
  /\ [][\A task \in authTasks :
          (userDocRead(task) \/ userDocWritten(task) \/ userDocFailed(task))
            => UNCHANGED <<user, loading>>]_vars


\* C28: while the Add Habit modal is open, at most one habit document has been
\* created since it was opened, however often Create Habit is clicked and
\* whenever the writes land; and a rejected write of the open modal leaves it
\* open with loading false and the error shown, without arming onClose.
C28_AtMostOneHabitPerOpening ==
  /\ [](showAddHabit => createdSinceOpen <= 1)
  /\ [][\A save \in saves :
          (addDocRejected(save) /\ stillMounted(save)) =>
             /\ ~modalLoading'
             /\ modalError' # ""
             /\ showAddHabit'
             /\ closeTimers' = closeTimers]_vars


\* C29: while the dashboard is mounted, the day identifier it uses as today
\* is the current local calendar date, also after the local clock passes
\* midnight with the page open.
C29_TodayIsTheCurrentLocalDate ==
  page = "dashboard" => today = getToday(tz, now)


\* C30: the streak loops terminate: a running loop of getStreak or of
\* calculateStreak (with or without rangeDays) reaches its return, for every
\* set of completed dates and every starting day, and it does so before the
\* number of rounds reaches the cap of the model.
C30_StreakLoopsTerminate ==
  /\ [](streakLoop.streak < MaxRounds)
  /\ (streakLoop.pc = "loop") ~> (streakLoop.pc = "done")

\* A loop has returned after running as many rounds as there are completed dates.
C30_Witness ==
  /\ streakLoop.pc = "done"
  /\ streakLoop.kind = "getStreak"
  /\ streakLoop.streak >= 3
  /\ streakLoop.streak = Cardinality(streakLoop.set)

====
